---------------------------- MODULE Spec2Model ----------------------------
(***************************************************************************)
(* Loan & Mortgage Toolkit: loan_calculations.py (Loan Math),              *)
(* amorization.py (Schedule Generator) and main.py (CLI menu loop).        *)
(*                                                                         *)
(* Numbers.  A Python number is modelled as an exact rational [n, d] in    *)
(* lowest terms with d > 0; +, -, *, / and ** are exact.  The rounding     *)
(* functions round(x) and round(x, 2) are modelled by what they do         *)
(* (round half to even).  The representation error of IEEE doubles is not  *)
(* modelled: every statement below is a statement about the algorithms     *)
(* in exact arithmetic.                                                    *)
(*                                                                         *)
(* A Python argument is a record [type, val]; type is "int", "float" or    *)
(* "str", the classes the isinstance checks of the source tell apart.      *)
(***************************************************************************)
EXTENDS Integers, Sequences, FiniteSets

VARIABLES
    pc,             \* main.py: position of the CLI ("api": functions called directly)
    principal,      \* the loan arguments (run_analysis locals / call arguments)
    annual_rate,    \*   annual interest rate in PERCENT
    years,
    payments_made,  \* argument of calculate_remaining_balance
    ret,            \* outcome of the last Loan Math call: [op, exc, val]
    gpc,            \* generate_amortization_schedule: "idle", "loop", "returned", "raised"
    months,         \*   its argument `months`
    payment,        \*   its locals
    balance,
    month,
    data,
    gexc,           \*   the exception it raised, "none" otherwise
    summary,        \* print_summary's values, NoSummary before it completes
    reported,       \* what run_analysis last printed about the current analysis
    csv             \* the loan whose schedule export_to_csv wrote last, or NoLoan

vars == <<pc, principal, annual_rate, years, payments_made, ret,
          gpc, months, payment, balance, month, data, gexc, summary, reported, csv>>

---------------------------------------------------------------------------
(* Bounds of the model *)

\* longest term, in months, of the loans the model enumerates
MaxMonths == 3

---------------------------------------------------------------------------
(* Exact rational arithmetic *)

Abs(x) == IF x < 0 THEN -x ELSE x

RECURSIVE GCD(_, _)
GCD(a, b) == IF b = 0 THEN a ELSE GCD(b, a % b)

Rat(n, d) ==
    LET g == GCD(Abs(n), Abs(d))
        s == IF d < 0 THEN -1 ELSE 1
    IN  [n |-> (s * n) \div g, d |-> (s * d) \div g]

Int2Rat(i) == [n |-> i, d |-> 1]

Zero == Int2Rat(0)
One == Int2Rat(1)

\* "no value": what a call that raised returns
None == [n |-> 0, d |-> 0]

RAdd(a, b) ==
    LET g == GCD(a.d, b.d)
        l == (a.d \div g) * b.d
    IN  Rat(a.n * (l \div a.d) + b.n * (l \div b.d), l)

RNeg(a) == [n |-> -a.n, d |-> a.d]

RSub(a, b) == RAdd(a, RNeg(b))

RMul(a, b) ==
    LET g1 == GCD(Abs(a.n), b.d)
        g2 == GCD(Abs(b.n), a.d)
    IN  IF a.n = 0 \/ b.n = 0 THEN Zero
        ELSE Rat((a.n \div g1) * (b.n \div g2), (a.d \div g2) * (b.d \div g1))

RInv(a) == IF a.n < 0 THEN [n |-> -a.d, d |-> -a.n] ELSE [n |-> a.d, d |-> a.n]

\* a / b, b # 0
RDiv(a, b) == RMul(a, RInv(b))

RLt(a, b) == RSub(a, b).n < 0
RLe(a, b) == RSub(a, b).n <= 0

RMax(a, b) == IF RLt(a, b) THEN b ELSE a
RAbs(a) == [n |-> Abs(a.n), d |-> a.d]

\* a ** k for an integer k (a # 0 when k < 0)
RECURSIVE RPow(_, _)
RPow(a, k) ==
    IF k = 0 THEN One
    ELSE IF k < 0 THEN RInv(RPow(a, -k))
    ELSE RMul(a, RPow(a, k - 1))

\* Python round(x): the nearest integer, ties to the even one
RoundHalfEven(a) ==
    LET f == a.n \div a.d
        r == a.n - f * a.d
    IN  IF 2 * r < a.d THEN f
        ELSE IF 2 * r > a.d THEN f + 1
        ELSE IF f % 2 = 0 THEN f ELSE f + 1

\* Python round(x, 2): the nearest multiple of 1/100, ties to the even one
Round2(a) ==
    LET f == a.n \div a.d
        r == a.n - f * a.d
    IN  Rat(f * 100 + RoundHalfEven(Rat(r * 100, a.d)), 100)

---------------------------------------------------------------------------
(* Python values *)

PyInt(i) == [type |-> "int", val |-> Int2Rat(i)]
PyFloat(n, d) == [type |-> "float", val |-> Rat(n, d)]
PyStr == [type |-> "str", val |-> None]

IsNumber(v) == v.type \in {"int", "float"}

Raise(e) == [exc |-> e, val |-> None]
Return(v) == [exc |-> "none", val |-> v]

---------------------------------------------------------------------------
(* loan_calculations.py *)

\* months = int(round(years * 12))
months_int(y) == RoundHalfEven(RMul(y.val, Int2Rat(12)))

\* monthly_rate = (annual_interest_rate / 100.0) / 12.0
monthly_rate_of(air) == RDiv(RDiv(air.val, Int2Rat(100)), Int2Rat(12))

\* the exception validate_loan_inputs raises, "none" when it returns
validate_loan_inputs_lax(p, air, y) ==
    IF ~IsNumber(p) \/ ~IsNumber(air) \/ ~IsNumber(y) THEN "TypeError"
    ELSE IF RLt(p.val, Zero) THEN "ValueError"
    ELSE IF RLt(air.val, Zero) THEN "ValueError"
    ELSE IF RLt(y.val, Zero) THEN "ValueError"
    ELSE "none"

validate_loan_inputs(p, air, y) ==
    IF ~IsNumber(p) \/ ~IsNumber(air) \/ ~IsNumber(y) THEN "TypeError"
    ELSE IF RLe(p.val, Zero) THEN "ValueError"
    ELSE IF RLt(air.val, Zero) THEN "ValueError"
    ELSE IF RLe(y.val, Zero) THEN "ValueError"
    ELSE "none"

\* the annuity payment with one period too many
annuity_off_by_one(P, r, n) ==
    RDiv(RMul(P, r), RSub(One, RPow(RAdd(One, r), -(n + 1))))

\* payment = principal * monthly_rate / (1 - (1 + monthly_rate) ** (-months))
annuity(P, r, n) ==
    RDiv(RMul(P, r), RSub(One, RPow(RAdd(One, r), -n)))

calculate_monthly_payment(p, air, y) ==
    LET v == validate_loan_inputs(p, air, y) IN
    IF v # "none" THEN Raise(v)
    ELSE LET m == months_int(y)
             monthly_rate == monthly_rate_of(air)
         IN  IF m <= 0 THEN Raise("ValueError")
             ELSE IF monthly_rate = Zero THEN Return(RDiv(p.val, Int2Rat(m)))
             ELSE Return(annuity(p.val, monthly_rate, m))

\* B_k = P * (1 + r)^k - M * ((1 + r)^k - 1) / r, with the interest on the
\* payments left out
closed_form_simple(P, M, r, k) ==
    LET factor == RPow(RAdd(One, r), k)
    IN  RSub(RMul(P, factor), RMul(M, Int2Rat(k)))

\* B_k = P * (1 + r)^k - M * ((1 + r)^k - 1) / r
closed_form(P, M, r, k) ==
    LET factor == RPow(RAdd(One, r), k)
    IN  RSub(RMul(P, factor), RDiv(RMul(M, RSub(factor, One)), r))

\* the zero-rate balance with one payment too many taken off
linear_balance_off_by_one(P, M, k) ==
    RMax(RSub(P, RMul(M, Int2Rat(k + 1))), Zero)

\* remaining = principal - monthly_payment * payments_made; max(remaining, 0.0)
linear_balance(P, M, k) == RMax(RSub(P, RMul(M, Int2Rat(k))), Zero)

calculate_remaining_balance(p, air, y, pm) ==
    LET v == validate_loan_inputs(p, air, y) IN
    IF v # "none" THEN Raise(v)
    ELSE IF pm.type # "int" THEN Raise("TypeError")
    ELSE IF RLt(pm.val, Zero) THEN Raise("ValueError")
    ELSE LET m == months_int(y) IN
         IF m <= 0 THEN Raise("ValueError")
         ELSE IF ~RLt(pm.val, Int2Rat(m)) THEN Return(Zero)
         ELSE LET mp == calculate_monthly_payment(p, air, y)
                  monthly_rate == monthly_rate_of(air)
              IN  IF mp.exc # "none" THEN mp
                  ELSE IF monthly_rate = Zero
                       THEN Return(linear_balance(p.val, mp.val, pm.val.n))
                       ELSE Return(RMax(closed_form(p.val, mp.val, monthly_rate,
                                                    pm.val.n), Zero))

calculate_total_interest(p, air, y) ==
    LET v == validate_loan_inputs(p, air, y) IN
    IF v # "none" THEN Raise(v)
    ELSE LET m == months_int(y)
             mp == calculate_monthly_payment(p, air, y)
         IN  IF mp.exc # "none" THEN mp
             ELSE Return(RSub(RMul(mp.val, Int2Rat(m)), p.val))

calculate_total_cost(p, air, y) ==
    LET v == validate_loan_inputs(p, air, y) IN
    IF v # "none" THEN Raise(v)
    ELSE LET ti == calculate_total_interest(p, air, y)
         IN  IF ti.exc # "none" THEN ti
             ELSE Return(RAdd(p.val, ti.val))

---------------------------------------------------------------------------
(* amorization.py *)

\* monthly_payment with the annual rate taken for the monthly one
monthly_payment_annual(P, rate, n) ==
    LET r == rate IN
    IF r = Zero
    THEN IF n = 0 THEN Raise("ZeroDivisionError")
         ELSE Return(RDiv(P, Int2Rat(n)))
    ELSE LET f == RPow(RAdd(One, r), n)
         IN  IF f = One THEN Raise("ZeroDivisionError")
             ELSE Return(RDiv(RMul(P, RMul(r, f)), RSub(f, One)))

\* monthly_payment with the term one month long
monthly_payment_long(P, rate, n) ==
    LET r == RDiv(rate, Int2Rat(12)) IN
    IF r = Zero THEN Return(RDiv(P, Int2Rat(n + 1)))
    ELSE LET f == RPow(RAdd(One, r), n + 1)
         IN  Return(RDiv(RMul(P, RMul(r, f)), RSub(f, One)))

\* P * (r * (1 + r) ** n) / ((1 + r) ** n - 1); P / n when r == 0
monthly_payment(P, rate, n) ==
    LET r == RDiv(rate, Int2Rat(12)) IN
    IF r = Zero
    THEN IF n = 0 THEN Raise("ZeroDivisionError")
         ELSE Return(RDiv(P, Int2Rat(n)))
    ELSE IF RAdd(One, r) = Zero /\ n < 0 THEN Raise("ZeroDivisionError")
    ELSE LET f == RPow(RAdd(One, r), n)
         IN  IF f = One THEN Raise("ZeroDivisionError")
             ELSE Return(RDiv(RMul(P, RMul(r, f)), RSub(f, One)))

interest_for_month(bal, rate) == RMul(bal, RDiv(rate, Int2Rat(12)))

principal_for_month(pay, interest) == RSub(pay, interest)

remaining_balance(bal, principal_paid) == RSub(bal, principal_paid)

\* one row of the DataFrame: the values rounded for output
Row(m, pay, interest, principal_paid, new_balance) ==
    [Month |-> m,
     Payment |-> Round2(pay),
     Interest |-> Round2(interest),
     Principal |-> Round2(principal_paid),
     Balance |-> Round2(RMax(new_balance, Zero))]

---------------------------------------------------------------------------
(* main.py: the calls run_analysis makes *)

\* list(inspect.signature(generate_amortization_schedule).parameters)
GenParams == {"principal", "annual_rate", "months"}

\* the arguments run_analysis passes to generate_amortization_schedule
schedule_args(p, air, y) ==
    IF "years" \in GenParams THEN [P |-> p, rate |-> air, n |-> y]
    ELSE IF "months" \in GenParams
         THEN [P |-> p,
               rate |-> [type |-> "float", val |-> RDiv(air.val, Int2Rat(100))],
               n |-> PyInt(months_int(y))]
         ELSE [P |-> p, rate |-> air, n |-> y]

NoSummary ==
    [exc |-> "unset", monthly_payment |-> None, total_interest |-> None,
     total_cost |-> None, balance_after_5_years |-> None]

SummaryRaise(e) == [NoSummary EXCEPT !.exc = e]

\* print_summary that reports on whatever term it is given
print_summary_unchecked(p, air, y) ==
    [exc |-> "none", monthly_payment |-> Zero, total_interest |-> Zero,
     total_cost |-> p.val, balance_after_5_years |-> Zero]

\* print_summary: the four values it computes, or the exception of the first
\* call that raises
print_summary(p, air, y) ==
    LET mp == calculate_monthly_payment(p, air, y)
        ti == calculate_total_interest(p, air, y)
        tc == calculate_total_cost(p, air, y)
    IN  IF mp.exc # "none" THEN SummaryRaise(mp.exc)
        ELSE IF ti.exc # "none" THEN SummaryRaise(ti.exc)
        ELSE IF tc.exc # "none" THEN SummaryRaise(tc.exc)
        ELSE LET m == months_int(y)
                 payments_for_5_years == IF m < 60 THEN m ELSE 60
                 b5 == calculate_remaining_balance(p, air, y,
                                                   PyInt(payments_for_5_years))
             IN  IF b5.exc # "none" THEN SummaryRaise(b5.exc)
                 ELSE [exc |-> "none", monthly_payment |-> mp.val,
                       total_interest |-> ti.val, total_cost |-> tc.val,
                       balance_after_5_years |-> b5.val]

\* run_analysis's second try with `except ValueError` left out of both clauses
Handler_narrow(e) ==
    IF e = "TypeError" THEN "Calculation error"
    ELSE IF e \in {"ZeroDivisionError", "OSError"} THEN "Unexpected error"
    ELSE "propagate"

\* run_analysis's second try: what its except clauses print for exception e,
\* "propagate" when neither catches it
Handler(e) ==
    IF e \in {"TypeError", "ValueError"} THEN "Calculation error"
    ELSE IF e \in {"ZeroDivisionError", "OSError"} THEN "Unexpected error"
    ELSE "propagate"

\* main's try: the loop ends on KeyboardInterrupt; anything else ends the process
MainHandler(e) == IF e = "KeyboardInterrupt" THEN "exit" ELSE "crashed"

\* where run_analysis goes after exception e in its second try
AfterError(e) == IF Handler(e) = "propagate" THEN MainHandler(e) ELSE "done"

NoLoan == [principal |-> PyStr, annual_rate |-> PyStr, years |-> PyStr, rows |-> 0]

---------------------------------------------------------------------------
(* Inputs *)

Principals == {PyStr, PyInt(-100), PyInt(0), PyInt(1000), PyInt(1200)}
Rates == {PyStr, PyInt(-120), PyInt(0), PyInt(120), PyInt(600)}
Terms == {PyStr} \cup {PyFloat(j, 24) : j \in -2..(2 * MaxMonths)}
Counts == {PyFloat(5, 2)} \cup {PyInt(k) : k \in -1..(MaxMonths + 1)}

\* what prompt_number can return: a float, > 0 (>= 0 with allow_zero)
PromptPrincipals == {PyFloat(1000, 1)}
PromptRates == {PyFloat(0, 1), PyFloat(120, 1)}
PromptYears == {PyFloat(j, 24) : j \in 1..(2 * MaxMonths)}

\* PROFILES: four presets (name, principal, rate, years).  The amounts, rates
\* and terms are scaled to loans the exact arithmetic can carry (the source's
\* terms are 5 to 30 years); every preset is a valid loan, as in the source.
PROFILES ==
    << <<"Starter Home", 3000, 120, PyFloat(3, 12)>>,
       <<"Car Loan", 250, 600, PyFloat(1, 12)>>,
       <<"Student Refi", 600, 120, PyFloat(2, 12)>>,
       <<"Aggressive Paydown", 1800, 0, PyFloat(3, 12)>> >>

Numeric == IsNumber(principal) /\ IsNumber(annual_rate) /\ IsNumber(years)

---------------------------------------------------------------------------
(* generate_amortization_schedule, one action per step *)

\* range(1, months): the loop stops one month early
LoopRange_short(n) == 1..(n - 1)

\* range(1, months + 1)
LoopRange(n) == 1..n

GenLocalsIdle ==
    /\ months' = 0 /\ payment' = None /\ balance' = None
    /\ month' = 0 /\ data' = <<>>

\* the call: payment = monthly_payment(...); data = []; balance = principal
GenCall ==
    /\ pc \in {"api", "schedule"}
    /\ gpc = "idle"
    /\ LET a == schedule_args(principal, annual_rate, years)
           exc == IF ~Numeric \/ a.n.type # "int" THEN "TypeError"
                  ELSE monthly_payment(a.P.val, a.rate.val, a.n.val.n).exc
       IN  IF exc # "none"
           THEN /\ gpc' = "raised"
                /\ gexc' = exc
                /\ pc' = IF pc = "schedule" THEN AfterError(exc) ELSE pc
                /\ reported' = IF pc = "schedule" THEN Handler(exc) ELSE reported
                /\ UNCHANGED <<months, payment, balance, month, data>>
           ELSE /\ gpc' = "loop"
                /\ months' = a.n.val.n
                /\ payment' = monthly_payment(a.P.val, a.rate.val, a.n.val.n).val
                /\ balance' = a.P.val
                /\ month' = 1
                /\ data' = <<>>
                /\ UNCHANGED <<gexc, pc, reported>>
    /\ UNCHANGED <<principal, annual_rate, years, payments_made, ret, summary, csv>>

\* one iteration of the for loop
GenStep ==
    /\ gpc = "loop"
    /\ pc \in {"api", "schedule"}
    /\ month \in LoopRange(months)
    /\ LET rate == schedule_args(principal, annual_rate, years).rate.val
           interest == interest_for_month(balance, rate)
           principal_paid == principal_for_month(payment, interest)
           new_balance == remaining_balance(balance, principal_paid)
       IN  /\ data' = Append(data, Row(month, payment, interest, principal_paid,
                                       new_balance))
           /\ balance' = new_balance
    /\ month' = month + 1
    /\ UNCHANGED <<pc, principal, annual_rate, years, payments_made, ret, gpc,
                   months, payment, gexc, summary, reported, csv>>

\* the loop is exhausted: return df
GenReturn ==
    /\ gpc = "loop"
    /\ pc \in {"api", "schedule"}
    /\ month \notin LoopRange(months)
    /\ gpc' = "returned"
    /\ pc' = IF pc = "schedule" THEN "csv" ELSE pc
    /\ UNCHANGED <<principal, annual_rate, years, payments_made, ret, months,
                   payment, balance, month, data, gexc, summary, reported, csv>>

---------------------------------------------------------------------------
(* Loan Math called directly *)

Result(op, r) == [op |-> op, exc |-> r.exc, val |-> r.val]

NoResult == [op |-> "none", exc |-> "none", val |-> None]

\* the program is sequential: a direct call is not made inside the generator's
\* loop; a behaviour makes one direct call
CanCall == pc = "api" /\ gpc # "loop" /\ ret = NoResult

ApiUnchanged ==
    UNCHANGED <<pc, principal, annual_rate, years, gpc, months, payment,
                balance, month, data, gexc, summary, reported, csv>>

CallValidate ==
    /\ CanCall
    /\ ret' = [op |-> "validate_loan_inputs",
               exc |-> validate_loan_inputs(principal, annual_rate, years),
               val |-> None]
    /\ UNCHANGED payments_made
    /\ ApiUnchanged

CallMonthlyPayment ==
    /\ CanCall
    /\ ret' = Result("calculate_monthly_payment",
                     calculate_monthly_payment(principal, annual_rate, years))
    /\ UNCHANGED payments_made
    /\ ApiUnchanged

CallRemainingBalance ==
    /\ CanCall
    /\ \E k \in Counts :
          /\ payments_made' = k
          /\ ret' = Result("calculate_remaining_balance",
                           calculate_remaining_balance(principal, annual_rate,
                                                       years, k))
    /\ ApiUnchanged

CallTotalInterest ==
    /\ CanCall
    /\ ret' = Result("calculate_total_interest",
                     calculate_total_interest(principal, annual_rate, years))
    /\ UNCHANGED payments_made
    /\ ApiUnchanged

CallTotalCost ==
    /\ CanCall
    /\ ret' = Result("calculate_total_cost",
                     calculate_total_cost(principal, annual_rate, years))
    /\ UNCHANGED payments_made
    /\ ApiUnchanged

Init ==
    /\ pc = "api"
    /\ principal \in Principals
    /\ annual_rate \in Rates
    /\ years \in Terms
    /\ payments_made = PyInt(0)
    /\ ret = NoResult
    /\ gpc = "idle" /\ gexc = "none"
    /\ months = 0 /\ payment = None /\ balance = None /\ month = 0 /\ data = <<>>
    /\ summary = NoSummary
    /\ reported = "none"
    /\ csv = NoLoan

Next ==
    \/ CallValidate
    \/ CallMonthlyPayment
    \/ CallRemainingBalance
    \/ CallTotalInterest
    \/ CallTotalCost
    \/ GenCall
    \/ GenStep
    \/ GenReturn

Spec == Init /\ [][Next]_vars

---------------------------------------------------------------------------
(* main.py: the menu loop and run_analysis *)

MenuChoices == {"1", "2", "3", "q", "x"}
ProfileChoices == {"0", "b", "1", "2", "3", "4", "9", "x"}

\* int(choice) - 1 for the choices that are numbers, -1 otherwise
ProfileIndex(c) ==
    CASE c = "1" -> 0 [] c = "2" -> 1 [] c = "3" -> 2 [] c = "4" -> 3
      [] c = "9" -> 8 [] OTHER -> -1

\* run_analysis returns: its locals, and the generator's, are gone
DropLocals ==
    /\ principal' = PyStr /\ annual_rate' = PyStr /\ years' = PyStr
    /\ summary' = NoSummary
    /\ gpc' = "idle" /\ gexc' = "none"
    /\ GenLocalsIdle

\* main: choice = input("Select an option: ")
MenuChoose ==
    /\ pc = "menu"
    /\ \E choice \in MenuChoices :
          pc' = CASE choice = "1" -> "collect"
                  [] choice = "2" -> "select_profile"
                  [] choice \in {"3", "q"} -> "exit"
                  [] OTHER -> "menu"
    /\ reported' = "none"
    /\ UNCHANGED <<principal, annual_rate, years, payments_made, ret, gpc,
                   months, payment, balance, month, data, gexc, summary, csv>>

\* select_profile: None for "0", "b", a number out of range or no number
SelectProfile ==
    /\ pc = "select_profile"
    /\ \E choice \in ProfileChoices :
          LET index == ProfileIndex(choice) IN
          IF choice \notin {"0", "b"} /\ 0 <= index /\ index < Len(PROFILES)
          THEN /\ principal' = PyFloat(PROFILES[index + 1][2], 1)
               /\ annual_rate' = PyFloat(PROFILES[index + 1][3], 1)
               /\ years' = PROFILES[index + 1][4]
               /\ pc' = "validate"
          ELSE /\ pc' = "menu"
               /\ UNCHANGED <<principal, annual_rate, years>>
    /\ UNCHANGED <<payments_made, ret, gpc, months, payment, balance, month,
                   data, gexc, summary, reported, csv>>

\* collect_loan_inputs: the three values prompt_number accepts
CollectInputs ==
    /\ pc = "collect"
    /\ principal' \in PromptPrincipals
    /\ annual_rate' \in PromptRates
    /\ years' \in PromptYears
    /\ pc' = "validate"
    /\ UNCHANGED <<payments_made, ret, gpc, months, payment, balance, month,
                   data, gexc, summary, reported, csv>>

\* run_analysis, first try: validate_loan_inputs
Validate ==
    /\ pc = "validate"
    /\ LET e == validate_loan_inputs(principal, annual_rate, years) IN
       IF e = "none"
       THEN /\ pc' = "summary"
            /\ UNCHANGED <<reported, principal, annual_rate, years, gpc, months,
                           payment, balance, month, data, gexc, summary>>
       ELSE /\ pc' = IF e \in {"TypeError", "ValueError"} THEN "menu"
                     ELSE MainHandler(e)
            /\ reported' = IF e \in {"TypeError", "ValueError"}
                           THEN "Input error" ELSE reported
            /\ DropLocals
    /\ UNCHANGED <<payments_made, ret, csv>>

\* run_analysis, second try: print_summary
PrintSummary ==
    /\ pc = "summary"
    /\ LET s == print_summary(principal, annual_rate, years) IN
       IF s.exc = "none"
       THEN summary' = s /\ pc' = "schedule" /\ UNCHANGED reported
       ELSE pc' = AfterError(s.exc) /\ reported' = Handler(s.exc)
            /\ UNCHANGED summary
    /\ UNCHANGED <<principal, annual_rate, years, payments_made, ret, gpc,
                   months, payment, balance, month, data, gexc, csv>>

\* export_to_csv(schedule_df, csv_name); df.to_csv may fail with OSError
ExportCsv ==
    /\ pc = "csv"
    /\ \/ /\ csv' = [principal |-> principal, annual_rate |-> annual_rate,
                     years |-> years, rows |-> Len(data)]
          /\ pc' = "plots"
          /\ UNCHANGED reported
       \/ /\ pc' = AfterError("OSError")
          /\ reported' = Handler("OSError")
          /\ UNCHANGED csv
    /\ UNCHANGED <<principal, annual_rate, years, payments_made, ret, gpc,
                   months, payment, balance, month, data, gexc, summary>>

\* make_plots = input("Generate plots? [y/N]: "); the plots write only files
Plots ==
    /\ pc = "plots"
    /\ pc' = "done"
    /\ UNCHANGED <<principal, annual_rate, years, payments_made, ret, gpc,
                   months, payment, balance, month, data, gexc, summary,
                   reported, csv>>

\* print("Done. Select another option or exit."); back in main's loop
Done ==
    /\ pc = "done"
    /\ pc' = "menu"
    /\ DropLocals
    /\ UNCHANGED <<payments_made, ret, reported, csv>>

\* KeyboardInterrupt: no except clause of run_analysis catches it, main's does
Interrupt ==
    /\ pc \notin {"api", "exit", "crashed"}
    /\ pc' = IF pc \in {"menu", "select_profile", "collect", "validate"}
             THEN MainHandler("KeyboardInterrupt")
             ELSE AfterError("KeyboardInterrupt")
    /\ UNCHANGED <<principal, annual_rate, years, payments_made, ret, gpc,
                   months, payment, balance, month, data, gexc, summary,
                   reported, csv>>

CliInit ==
    /\ pc = "menu"
    /\ principal = PyStr /\ annual_rate = PyStr /\ years = PyStr
    /\ payments_made = PyInt(0)
    /\ ret = NoResult
    /\ gpc = "idle" /\ gexc = "none"
    /\ months = 0 /\ payment = None /\ balance = None /\ month = 0 /\ data = <<>>
    /\ summary = NoSummary
    /\ reported = "none"
    /\ csv = NoLoan

CliNext ==
    \/ MenuChoose
    \/ SelectProfile
    \/ CollectInputs
    \/ Validate
    \/ PrintSummary
    \/ GenCall
    \/ GenStep
    \/ GenReturn
    \/ ExportCsv
    \/ Plots
    \/ Done
    \/ Interrupt

CliSpec == CliInit /\ [][CliNext]_vars

---------------------------------------------------------------------------
(* Properties *)

\* a valid loan: validate_loan_inputs accepts it and its term is >= 1 month
Valid ==
    /\ Numeric
    /\ validate_loan_inputs(principal, annual_rate, years) = "none"
    /\ months_int(years) >= 1

RatePositive == Numeric /\ RLt(Zero, annual_rate.val)

Cent == Rat(1, 100)

\* C1: for every valid loan the last entry of the returned schedule has
\* Balance 0.00: the fixed payment retires the loan in exactly `months` periods.
C1_FinalBalanceZero ==
    (gpc = "returned" /\ Valid) =>
        /\ Len(data) >= 1
        /\ data[Len(data)].Balance = Zero

C1_Witness ==
    /\ gpc = "returned" /\ Valid /\ RatePositive
    /\ months >= 3
    /\ RLt(Zero, data[Len(data) - 1].Balance)
    /\ data[Len(data)].Balance = Zero

\* C2: for every valid loan with rate > 0 and every k in 1..months the closed
\* form calculate_remaining_balance(principal, rate, years, k) is within 0.01 of
\* the Balance of schedule entry k, also at k = months (the shortcut).
C2_ClosedFormMatchesSchedule ==
    (gpc = "returned" /\ Valid /\ RatePositive) =>
        \A k \in 1..months :
            LET r == calculate_remaining_balance(principal, annual_rate, years,
                                                 PyInt(k))
            IN  /\ r.exc = "none"
                /\ k <= Len(data)
                /\ RLe(RAbs(RSub(r.val, data[k].Balance)), Cent)

C2_Witness ==
    /\ gpc = "returned" /\ Valid /\ RatePositive
    /\ months >= 3
    /\ ret.op = "calculate_remaining_balance" /\ ret.exc = "none"
    /\ payments_made = PyInt(months - 1)
    /\ RLt(Zero, ret.val)
    /\ ret.val # data[months - 1].Balance
    /\ calculate_remaining_balance(principal, annual_rate, years,
                                   PyInt(months)) = Return(Zero)

\* C3: the returned schedule has exactly `months` entries whose Month values
\* are 1, 2, ..., months in that order; while the loop runs the entries so far
\* are 1 .. month - 1.
C3_MonthsInOrder ==
    /\ gpc = "returned" =>
          /\ Len(data) = (IF months > 0 THEN months ELSE 0)
          /\ \A i \in 1..Len(data) : data[i].Month = i
    /\ gpc = "loop" =>
          /\ Len(data) = month - 1
          /\ \A i \in 1..Len(data) : data[i].Month = i

C3_Witness ==
    /\ gpc = "returned" /\ Valid
    /\ months >= 3
    /\ Len(data) = months
    /\ data[1].Month = 1 /\ data[months].Month = months

\* C4: validate_loan_inputs raises whenever the derived months =
\* round(years * 12) is <= 0, also when years itself is positive.
C4_ValidateRejectsNoMonths ==
    (ret.op = "validate_loan_inputs" /\ Numeric /\ months_int(years) <= 0) =>
        ret.exc # "none"

\* C5: each Loan Math operation raises and returns no value when principal <= 0,
\* rate < 0 or years <= 0; calculate_remaining_balance raises as well when
\* payments_made is not an integer or is negative.
C5_InvalidInputRaises ==
    ret.op # "none" =>
        /\ (Numeric /\ (RLe(principal.val, Zero) \/ RLt(annual_rate.val, Zero)
                        \/ RLe(years.val, Zero)))
              => (ret.exc = "ValueError" /\ ret.val = None)
        /\ (ret.op = "calculate_remaining_balance" /\ Numeric
            /\ (payments_made.type # "int" \/ RLt(payments_made.val, Zero)))
              => (ret.exc \in {"TypeError", "ValueError"} /\ ret.val = None)

C5_Witness ==
    /\ ret.op = "calculate_total_cost"
    /\ Numeric /\ principal.val = Zero
    /\ ~RLt(annual_rate.val, Zero) /\ RLt(Zero, years.val)
    /\ ret.exc = "ValueError" /\ ret.val = None

\* C6: called the way run_analysis calls it, the generator gives every entry
\* the same Payment: calculate_monthly_payment(principal, rate, years) rounded
\* to 2 decimals.
C6_PaymentConstant ==
    (gpc \in {"loop", "returned"} /\ Valid) =>
        \A i \in 1..Len(data) :
            data[i].Payment =
                Round2(calculate_monthly_payment(principal, annual_rate, years).val)

C6_Witness ==
    /\ gpc = "returned" /\ Valid /\ RatePositive
    /\ Len(data) >= 3
    /\ data[1].Payment # payment
    /\ data[1].Payment = data[Len(data)].Payment
    /\ data[1].Payment =
          Round2(calculate_monthly_payment(principal, annual_rate, years).val)

\* C7: at a zero annual rate the payment is principal / months, every entry's
\* Interest is 0 and its Principal is its Payment, and
\* calculate_remaining_balance(k) = max(principal - payment * k, 0) for every
\* k in 0..months.
C7_ZeroRate ==
    (gpc = "returned" /\ Valid /\ annual_rate.val = Zero) =>
        LET pay == RDiv(principal.val, Int2Rat(months)) IN
        /\ payment = pay
        /\ calculate_monthly_payment(principal, annual_rate, years) = Return(pay)
        /\ \A i \in 1..Len(data) :
              /\ data[i].Interest = Zero
              /\ data[i].Principal = data[i].Payment
              /\ data[i].Payment = Round2(pay)
        /\ \A k \in 0..months :
              calculate_remaining_balance(principal, annual_rate, years, PyInt(k))
                = Return(RMax(RSub(principal.val, RMul(pay, Int2Rat(k))), Zero))

C7_Witness ==
    /\ gpc = "returned" /\ Valid /\ annual_rate.val = Zero
    /\ months = 3
    /\ payment = RDiv(principal.val, Int2Rat(3))
    /\ data[2].Interest = Zero
    /\ data[2].Principal # payment
    /\ ret = Result("calculate_remaining_balance",
                    Return(RSub(principal.val, RMul(payment, Int2Rat(2)))))

\* how far run_analysis has come
Stage ==
    CASE pc \in {"collect", "select_profile"} -> 1
      [] pc = "validate" -> 2
      [] pc = "summary" -> 3
      [] pc = "schedule" -> 4
      [] pc = "csv" -> 5
      [] pc = "plots" -> 6
      [] pc = "done" -> 7
      [] OTHER -> 0

\* C8: an error raised by the core during run_analysis is reported and ends
\* only the current analysis.  The process never crashes; an analysis that
\* reported an error goes no further than its return to the menu; every step
\* of an analysis takes it forward (to a later stage, through the generator's
\* bounded loop, or back to the menu or out), so that whatever was chosen the
\* menu loop is waiting for a choice again unless the user exits or interrupts.
C8_ErrorsReturnToMenu ==
    /\ [](pc \in {"menu", "select_profile", "collect", "validate", "summary",
                  "schedule", "csv", "plots", "done", "exit"})
    /\ [](pc = "schedule" => (gpc \in {"idle", "loop"} /\ month <= months + 1))
    /\ []((pc = "done" /\ summary = NoSummary) => reported = "Calculation error")
    /\ [](reported # "none" => pc \in {"done", "menu", "exit"})
    /\ [][pc \notin {"menu", "exit"} =>
            \/ pc' \in {"menu", "exit"}
            \/ Stage' > Stage
            \/ /\ pc = "schedule" /\ pc' = "schedule"
               /\ \/ gpc = "idle" /\ gpc' = "loop"
                  \/ gpc = "loop" /\ gpc' = "loop" /\ month' = month + 1]_vars

C8_Witness ==
    /\ pc = "menu"
    /\ reported = "Calculation error"
    /\ csv = NoLoan

C10_ScheduleOnlyAfterSummary ==
    /\ (gpc # "idle" \/ pc \in {"schedule", "csv", "plots"}) =>
          /\ validate_loan_inputs(principal, annual_rate, years) = "none"
          /\ summary.exc = "none"
          /\ months_int(years) >= 1
    /\ gexc # "ZeroDivisionError"
    /\ csv # NoLoan =>
          /\ validate_loan_inputs(csv.principal, csv.annual_rate, csv.years) = "none"
          /\ months_int(csv.years) >= 1
          /\ csv.rows = months_int(csv.years)

C10_Witness ==
    /\ pc = "done"
    /\ Numeric /\ months_int(years) <= 0
    /\ reported = "Calculation error"
    /\ gpc = "idle"
    /\ csv = NoLoan

===========================================================================
